---- MODULE Spec2Model ----
(***************************************************************************)
(* Model of halo2-tutorial1/src/example3.rs: a halo2 circuit for the       *)
(* recurrence seq[i] = seq[i-3] + (seq[i-2] XOR seq[i-1]), its reference   *)
(* oracle get_sequence, and the driver main.                               *)
(*                                                                         *)
(* Widths.  TLC integers are 32 bits wide, so neither u64 nor the BN256    *)
(* scalar field can be written down.  u64 is modelled U64Bits wide and the *)
(* field as the integers modulo FieldOrder, keeping the order of the real  *)
(* program: TableRange < 2^U64Bits < FieldOrder.                           *)
(*                                                                         *)
(* Layouter.  synthesize and the chip are generic over `impl Layouter<F>`. *)
(* The layouter is the environment: for every region it decides whether    *)
(* the allocation succeeds and whether the value closures handed to        *)
(* assign_advice are evaluated (a proving pass evaluates them, a           *)
(* key-generation pass does not, leaving the cell's value None).           *)
(***************************************************************************)
EXTENDS Integers, Sequences, FiniteSets, TLC

VARIABLES
    pc,          \* position of main / synthesize
    args,        \* the arguments main passes to get_sequence: [a, b, c, num]
    seq,         \* main's `seq`: result of get_sequence
    circuit,     \* the FiboCircuit being synthesized: [a, b, c, num]
    shape_only,  \* TRUE once circuit was replaced by circuit.without_witnesses()
    xor_table,   \* the cells written into the three TableColumns, in order
    regions,     \* the regions assigned so far, in order of allocation
    a, b, c,     \* synthesize's rolling handles (Number), None before seeding
    xor,         \* synthesize's `xor` handle of the current iteration
    i,           \* loop variable of `for _ in 3..self.num`
    ops,         \* chip operations called so far, in order
    requested,   \* whether the layouter evaluated the value closures of the last operation
    err          \* the Err synthesize returned, or None

vars == <<pc, args, seq, circuit, shape_only, xor_table, regions, a, b, c, xor, i, ops, requested, err>>

\* ---------------------------------------------------------------- bounds
MaxSeed == 3
MaxNum == 6
U64Bits == 6
FieldOrder == 131

\* ------------------------------------------------------ program constants
TableRange == 32
MainA == 1
MainB == 3
MainC == 2
MainNum == 14
LoopStart == 3
MinNum == 3

\* Option<F>: None, or Some(v) with the value Get(o).
None == <<>>
Some(v) == <<v>>
Get(o) == o[1]

NoError == "None"

RECURSIVE Pow2(_)
Pow2(n) == IF n = 0 THEN 1 ELSE 2 * Pow2(n - 1)

U64Mod == Pow2(U64Bits)

\* ------------------------------------------------------------- arithmetic
\* The `^` operator on unsigned integers.
RECURSIVE BitXor(_, _)
BitXor(x, y) ==
    IF x = 0 THEN y
    ELSE IF y = 0 THEN x
    ELSE (((x % 2) + (y % 2)) % 2) + 2 * BitXor(x \div 2, y \div 2)

\* Field arithmetic of F: FieldExt.
FieldAdd(x, y) == (x + y) % FieldOrder
FieldSub(x, y) == (x - y) % FieldOrder
FieldMul(x, y) == (x * y) % FieldOrder

\* F::from(u64)
FieldFrom(n) == n % FieldOrder

\* `x.get_lower_128() as u64`
LowerU64(x) == x % U64Mod

\* --------------------------------------------------------- get_sequence
\* The loop `for i in 3..num` over a 0-based Vec, held as a 1-based sequence:
\* s[k + 1] is seq[k].  A u64 sum that overflows panics when overflow checks
\* are compiled in (debug build) and wraps otherwise (release build).
\* Faulty variant of get_sequence_loop: the term three back and the term two back
\* change places.
RECURSIVE get_sequence_loop_shifted(_, _, _, _)
get_sequence_loop_shifted(s, k, num, overflow_checks) ==
    IF k >= num THEN [panic |-> FALSE, seq |-> s]
    ELSE LET sum == s[k - 1] + BitXor(s[k - 2], s[k])
         IN  IF sum >= U64Mod /\ overflow_checks
             THEN [panic |-> TRUE, seq |-> s]
             ELSE get_sequence_loop_shifted([s EXCEPT ![k + 1] = sum % U64Mod],
                                            k + 1, num, overflow_checks)

\* Faulty variant of get_sequence_loop: addition where the XOR should be.
RECURSIVE get_sequence_loop_plus(_, _, _, _)
get_sequence_loop_plus(s, k, num, overflow_checks) ==
    IF k >= num THEN [panic |-> FALSE, seq |-> s]
    ELSE LET sum == s[k - 2] + (s[k - 1] + s[k])
         IN  IF sum >= U64Mod /\ overflow_checks
             THEN [panic |-> TRUE, seq |-> s]
             ELSE get_sequence_loop_plus([s EXCEPT ![k + 1] = sum % U64Mod],
                                         k + 1, num, overflow_checks)

RECURSIVE get_sequence_loop(_, _, _, _)
get_sequence_loop(s, k, num, overflow_checks) ==
    IF k >= num THEN [panic |-> FALSE, seq |-> s]
    ELSE LET sum == s[k - 2] + BitXor(s[k - 1], s[k])
         IN  IF sum >= U64Mod /\ overflow_checks
             THEN [panic |-> TRUE, seq |-> s]
             ELSE get_sequence_loop([s EXCEPT ![k + 1] = sum % U64Mod],
                                    k + 1, num, overflow_checks)

get_sequence(sa, sb, sc, num, overflow_checks) ==
    IF num < 3 THEN [panic |-> TRUE, seq |-> [k \in 1..num |-> 0]]
    ELSE get_sequence_loop(
            [k \in 1..num |-> IF k = 1 THEN sa ELSE IF k = 2 THEN sb
                              ELSE IF k = 3 THEN sc ELSE 0],
            3, num, overflow_checks)

\* ------------------------------------------------------------ load_table
\* One iteration of the inner loop writes the three table columns at row idx
\* and increments idx.  (The test on next.idx only makes TLC compute the
\* loop state before it goes on to the next iteration.)
\* Faulty variant of load_table_rhs: idx is not incremented.
RECURSIVE load_table_rhs_same_idx(_, _, _)
load_table_rhs_same_idx(lhs, rhs, st) ==
    IF rhs >= TableRange THEN st
    ELSE LET next == [idx    |-> st.idx,
                      writes |-> Append(st.writes,
                                   [idx |-> st.idx,
                                    row |-> <<FieldFrom(lhs), FieldFrom(rhs),
                                              FieldFrom(BitXor(lhs, rhs))>>])]
         IN  IF next.idx >= 0 THEN load_table_rhs_same_idx(lhs, rhs + 1, next) ELSE next

\* Faulty variant of load_table_rhs: the third column holds lhs + rhs.
RECURSIVE load_table_rhs_plus(_, _, _)
load_table_rhs_plus(lhs, rhs, st) ==
    IF rhs >= TableRange THEN st
    ELSE LET next == [idx    |-> st.idx + 1,
                      writes |-> Append(st.writes,
                                   [idx |-> st.idx,
                                    row |-> <<FieldFrom(lhs), FieldFrom(rhs),
                                              FieldFrom(lhs + rhs)>>])]
         IN  IF next.idx > 0 THEN load_table_rhs_plus(lhs, rhs + 1, next) ELSE next

RECURSIVE load_table_rhs(_, _, _)
load_table_rhs(lhs, rhs, st) ==
    IF rhs >= TableRange THEN st
    ELSE LET next == [idx    |-> st.idx + 1,
                      writes |-> Append(st.writes,
                                   [idx |-> st.idx,
                                    row |-> <<FieldFrom(lhs), FieldFrom(rhs),
                                              FieldFrom(BitXor(lhs, rhs))>>])]
         IN  IF next.idx > 0 THEN load_table_rhs(lhs, rhs + 1, next) ELSE next

RECURSIVE load_table_lhs(_, _)
load_table_lhs(lhs, st) ==
    IF lhs >= TableRange THEN st
    ELSE LET next == load_table_rhs(lhs, 0, st)
         IN  IF next.idx >= 0 THEN load_table_lhs(lhs + 1, next) ELSE next

load_table_writes == load_table_lhs(0, [idx |-> 0, writes |-> <<>>]).writes

\* The rows the table holds: what the lookup argument matches against.
TableRows(tbl) == {tbl[k].row : k \in 1..Len(tbl)}

\* ----------------------------------------------------- FiboChip::configure
\* Faulty variant of AddGate: rhs is subtracted.
AddGateMinus(s_add, lhs, rhs, out) ==
    FieldMul(s_add, FieldSub(FieldSub(lhs, rhs), out))

\* Gate "add": the polynomial s_add * (lhs + rhs - out), which must be zero.
AddGate(s_add, lhs, rhs, out) ==
    FieldMul(s_add, FieldSub(FieldAdd(lhs, rhs), out))

\* Lookup "xor": the three input expressions, matched against the table columns.
XorLookupInput(s_xor, lhs, rhs, out) ==
    <<FieldMul(s_xor, lhs), FieldMul(s_xor, rhs), FieldMul(s_xor, out)>>

\* ------------------------------------------------------- chip operations
\* Number: an AssignedCell, the cell (region, column, row 0) and its value.
Number(r, col, v) == [region |-> r, column |-> col, value |-> v]

\* A handle that is not bound yet.
NoNumber == Number(0, 0, None)

\* Faulty variant of add_value: an unknown input counts as zero.
add_value_zero(x, y) ==
    Some(FieldAdd(IF x.value = None THEN 0 ELSE Get(x.value),
                  IF y.value = None THEN 0 ELSE Get(y.value)))

\* The value closure of add: None unless both inputs are known.
add_value(x, y) ==
    IF x.value = None \/ y.value = None THEN None
    ELSE Some(FieldAdd(Get(x.value), Get(y.value)))

\* Faulty variant of xor_value: the field sum where the XOR should be.
xor_value_plus(x, y) ==
    IF x.value = None \/ y.value = None THEN None
    ELSE Some(FieldAdd(Get(x.value), Get(y.value)))

\* The value closure of xor.
xor_value(x, y) ==
    IF x.value = None \/ y.value = None THEN None
    ELSE Some(FieldFrom(BitXor(LowerU64(Get(x.value)), LowerU64(Get(y.value)))))

\* The region load_private assigns: three fresh cells, no selector, no copy.
load_private_region(va, vb, vc, eval) ==
    [name   |-> "private", s_add |-> 0, s_xor |-> 0,
     advice |-> IF eval THEN <<Some(va), Some(vb), Some(vc)>> ELSE <<None, None, None>>,
     copies |-> {}]

\* The region add assigns: selector s_add on row 0, columns 0 and 1 copied
\* from the handles x and y, column 2 the sum.
add_region(x, y, eval) ==
    [name   |-> "add", s_add |-> 1, s_xor |-> 0,
     advice |-> IF eval THEN <<x.value, y.value, add_value(x, y)>>
                ELSE <<None, None, None>>,
     copies |-> {<<0, x.region, x.column>>, <<1, y.region, y.column>>}]

\* The region xor assigns.
xor_region(x, y, eval) ==
    [name   |-> "xor", s_add |-> 0, s_xor |-> 1,
     advice |-> IF eval THEN <<x.value, y.value, xor_value(x, y)>>
                ELSE <<None, None, None>>,
     copies |-> {<<0, x.region, x.column>>, <<1, y.region, y.column>>}]

\* Faulty variant of LoopCond: the range includes num.
LoopCondInclusive(k, num) == k <= num

\* Faulty variant of Roll: a takes c where it should take b.
RollSkip(ha, hb, hc, new_c) == <<hc, hc, new_c>>

\* `for _ in 3..self.num`: the loop body runs while the counter is below num.
LoopCond(k, num) == k < num

\* `a = b; b = c; c = new_c;`
Roll(ha, hb, hc, new_c) == <<hb, hc, new_c>>

\* `value.ok_or(Error::Synthesis)`: evaluated only when the layouter asks for
\* the value.
ValueError(v, eval) == eval /\ v = None

\* ----------------------------------------------------------------- main
\* Seeds: the small values and the largest u64.
SeedVals == (0..MaxSeed) \cup {U64Mod - 1}

\* The seeds and the length main passes to get_sequence.
MainArgs == [a |-> MainA, b |-> MainB, c |-> MainC, num |-> MainNum]

\* The inputs considered: main's own, and every seed triple and length within
\* the bounds (get_sequence indexes seq[2], so a length is at least MinNum).
Args ==
    [a : SeedVals, b : SeedVals, c : SeedVals, num : MinNum..MaxNum]
    \cup {MainArgs}

\* FiboCircuit::default(), from #[derive(Default)].
DefaultCircuit == [a |-> 0, b |-> 0, c |-> 0, num |-> 0]

Init ==
    /\ pc = "main"
    /\ args \in Args
    /\ seq = <<>>
    /\ circuit = DefaultCircuit
    /\ shape_only = FALSE
    /\ xor_table = <<>>
    /\ regions = <<>>
    /\ a = NoNumber /\ b = NoNumber /\ c = NoNumber /\ xor = NoNumber
    /\ i = 0
    /\ ops = <<>>
    /\ requested = FALSE
    /\ err = NoError

\* main, lines 306-316: compute the oracle sequence and build the circuit.
Main ==
    /\ pc = "main"
    /\ \E overflow_checks \in BOOLEAN :
        LET r == get_sequence(args.a, args.b, args.c, args.num, overflow_checks)
        IN  \/ /\ r.panic
               /\ pc' = "panic"
               /\ UNCHANGED <<seq, circuit>>
            \/ /\ ~r.panic
               /\ seq' = r.seq
               /\ circuit' = [a   |-> FieldFrom(r.seq[1]),
                              b   |-> FieldFrom(r.seq[2]),
                              c   |-> FieldFrom(r.seq[3]),
                              num |-> args.num]
               /\ pc' = "circuit"
    /\ UNCHANGED <<args, shape_only, xor_table, regions, a, b, c, xor, i, ops, requested, err>>

\* Circuit::without_witnesses: Self::default().
WithoutWitnesses ==
    /\ pc = "circuit"
    /\ ~shape_only
    /\ circuit' = DefaultCircuit
    /\ shape_only' = TRUE
    /\ UNCHANGED <<pc, args, seq, xor_table, regions, a, b, c, xor, i, ops, requested, err>>

\* An operation returned Err: `?` makes synthesize return it at once.
Fail(e) ==
    /\ pc' = "error"
    /\ err' = e

\* synthesize line 265: chip.load_table(..)?
LoadTable ==
    /\ pc = "circuit"
    /\ ops' = Append(ops, "load_table")
    /\ \/ /\ xor_table' = load_table_writes
          /\ pc' = "table_loaded"
          /\ UNCHANGED err
       \/ /\ Fail("Layouter")
          /\ UNCHANGED xor_table
    /\ UNCHANGED <<args, seq, circuit, shape_only, regions, a, b, c, xor, i, requested>>

\* synthesize lines 267-272: chip.load_private(.., self.a, self.b, self.c)?
LoadPrivate ==
    /\ pc = "table_loaded"
    /\ ops' = Append(ops, "load_private")
    /\ \/ \E eval \in BOOLEAN :
            LET reg == load_private_region(circuit.a, circuit.b, circuit.c, eval)
                r   == Len(regions) + 1
            IN  /\ regions' = Append(regions, reg)
                /\ a' = Number(r, 0, reg.advice[1])
                /\ b' = Number(r, 1, reg.advice[2])
                /\ c' = Number(r, 2, reg.advice[3])
                /\ i' = LoopStart
                /\ requested' = eval
                /\ pc' = "loop"
                /\ UNCHANGED err
       \/ /\ Fail("Layouter")
          /\ requested' = FALSE
          /\ UNCHANGED <<regions, a, b, c, i>>
    /\ UNCHANGED <<args, seq, circuit, shape_only, xor_table, xor>>

\* synthesize lines 275-279: let xor = chip.xor(.., &b, &c)?
Xor ==
    /\ pc = "loop"
    /\ LoopCond(i, circuit.num)
    /\ ops' = Append(ops, "xor")
    /\ \/ \E eval \in BOOLEAN :
            LET reg == xor_region(b, c, eval)
            IN  /\ requested' = eval
                /\ \/ /\ ~ValueError(xor_value(b, c), eval)
                      /\ regions' = Append(regions, reg)
                      /\ xor' = Number(Len(regions) + 1, 2, reg.advice[3])
                      /\ pc' = "xored"
                      /\ UNCHANGED err
                   \/ /\ ValueError(xor_value(b, c), eval)
                      /\ Fail("Synthesis")
                      /\ UNCHANGED <<regions, xor>>
       \/ /\ Fail("Layouter")
          /\ requested' = FALSE
          /\ UNCHANGED <<regions, xor>>
    /\ UNCHANGED <<args, seq, circuit, shape_only, xor_table, a, b, c, i>>

\* synthesize lines 280-287: let new_c = chip.add(.., &a, &xor)?; then the
\* window rolls: a = b; b = c; c = new_c.
Add ==
    /\ pc = "xored"
    /\ ops' = Append(ops, "add")
    /\ \/ \E eval \in BOOLEAN :
            LET reg   == add_region(a, xor, eval)
                new_c == Number(Len(regions) + 1, 2, reg.advice[3])
                next  == Roll(a, b, c, new_c)
            IN  /\ requested' = eval
                /\ \/ /\ ~ValueError(add_value(a, xor), eval)
                      /\ regions' = Append(regions, reg)
                      /\ a' = next[1]
                      /\ b' = next[2]
                      /\ c' = next[3]
                      /\ i' = i + 1
                      /\ pc' = "loop"
                      /\ UNCHANGED err
                   \/ /\ ValueError(add_value(a, xor), eval)
                      /\ Fail("Synthesis")
                      /\ UNCHANGED <<regions, a, b, c, i>>
       \/ /\ Fail("Layouter")
          /\ requested' = FALSE
          /\ UNCHANGED <<regions, a, b, c, i>>
    /\ UNCHANGED <<args, seq, circuit, shape_only, xor_table, xor>>

\* synthesize line 289: the loop is over, Ok(()).
Return ==
    /\ pc = "loop"
    /\ ~LoopCond(i, circuit.num)
    /\ pc' = "complete"
    /\ UNCHANGED <<args, seq, circuit, shape_only, xor_table, regions, a, b, c, xor, i, ops, requested, err>>

Next ==
    \/ Main
    \/ WithoutWitnesses
    \/ LoadTable
    \/ LoadPrivate
    \/ Xor
    \/ Add
    \/ Return

Spec == Init /\ [][Next]_vars

\* ================================================================ claims
\* XOR stated bit by bit, independently of BitXor: over the k low bits, a bit
\* of the result is set exactly when the bits of x and y at its place differ.
RECURSIVE XorBits(_, _, _)
XorBits(x, y, k) ==
    IF k = 0 THEN 0
    ELSE (IF (x % 2) # (y % 2) THEN 1 ELSE 0) + 2 * XorBits(x \div 2, y \div 2, k - 1)

XorSpec(x, y) == XorBits(x, y, U64Bits)

\* main holds the result of get_sequence.
SeqReturned == pc \notin {"main", "panic"}

\* The sum of term k (1-based) as the recurrence states it, without wrapping.
TrueSum(k) == seq[k - 3] + XorSpec(seq[k - 2], seq[k - 1])

\* C1: get_sequence(a, b, c, n) with n >= 3 returns exactly n terms, the first
\* three being a, b, c, and every later term whose u64 sum does not overflow
\* is seq[i-3] + (seq[i-2] XOR seq[i-1]).
C1_Recurrence ==
    SeqReturned =>
        /\ Len(seq) = args.num
        /\ seq[1] = args.a /\ seq[2] = args.b /\ seq[3] = args.c
        /\ \A k \in 4..args.num : TrueSum(k) < U64Mod => seq[k] = TrueSum(k)

\* A returned sequence of at least five terms, none overflowing, in which XOR
\* and addition both matter.
C1_Witness ==
    /\ SeqReturned
    /\ Len(seq) >= 5
    /\ \A k \in 4..Len(seq) : TrueSum(k) < U64Mod
    /\ seq[1] > 0
    /\ XorSpec(seq[2], seq[3]) \notin {0, seq[2] + seq[3]}

\* The table columns are written (load_table returned Ok).
TableLoaded == Len(ops) >= 1 /\ ~(pc = "error" /\ Len(ops) = 1)

\* C2: after load_table the table holds exactly 1024 rows, at the indices
\* 0..1023, none written twice; the row of (lhs, rhs) is at index
\* 32*lhs + rhs and stores (lhs, rhs, lhs XOR rhs), for lhs, rhs in [0,32) and
\* for no other pair; row 0 is (0,0,0).
C2_TableExact ==
    pc = "table_loaded" =>
        LET n == TableRange * TableRange
        IN  /\ Len(xor_table) = n
            /\ {xor_table[k].idx : k \in 1..Len(xor_table)} = 0..(n - 1)
            /\ \A k \in 1..Len(xor_table) :
                  /\ xor_table[k].row[1] \in 0..(TableRange - 1)
                  /\ xor_table[k].row[2] \in 0..(TableRange - 1)
            /\ \A lhs \in 0..(TableRange - 1) : \A rhs \in 0..(TableRange - 1) :
                  xor_table[TableRange * lhs + rhs + 1] =
                      [idx |-> TableRange * lhs + rhs,
                       row |-> <<lhs, rhs, XorSpec(lhs, rhs)>>]
            /\ xor_table[1] = [idx |-> 0, row |-> <<0, 0, 0>>]

\* The table has just been loaded.
C2_Witness == pc = "table_loaded" /\ Len(xor_table) > 0

\* C3 as stated: get_sequence(1, 3, 2, 14) is
\* [1, 3, 2, 2, 1, 3, 0, 3, 3, 0, 3, 3, 0, 3].
C3_AsStated ==
    (SeqReturned /\ args = MainArgs) =>
        seq = <<1, 3, 2, 2, 1, 3, 0, 3, 3, 0, 3, 3, 0, 3>>

\* C3 amended: get_sequence(1, 3, 2, 14) is
\* [1, 3, 2, 2, 3, 3, 2, 4, 9, 15, 10, 14, 19, 39].
C3_MainSequence ==
    (SeqReturned /\ args = MainArgs) =>
        seq = <<1, 3, 2, 2, 3, 3, 2, 4, 9, 15, 10, 14, 19, 39>>

\* main has computed the sequence for its own seeds and length.
C3_Witness == SeqReturned /\ args = MainArgs /\ Len(seq) = MainNum

\* ---------------------------------------------------- constraint checking
\* The elements of the field.
Field == 0..(FieldOrder - 1)

\* Every cell of the region holds a value.
Known(reg) == \A k \in 1..3 : reg.advice[k] # None

Lhs(reg) == Get(reg.advice[1])
Rhs(reg) == Get(reg.advice[2])
Out(reg) == Get(reg.advice[3])

LastRegion == regions[Len(regions)]

\* The gate "add" on the region's row.
GateHolds(reg) == AddGate(reg.s_add, Lhs(reg), Rhs(reg), Out(reg)) = 0

\* The lookup "xor" on the region's row, against the rows T of the table.
LookupHolds(reg, T) == XorLookupInput(reg.s_xor, Lhs(reg), Rhs(reg), Out(reg)) \in T

\* Every copy constraint of the region links cells of equal value.
CopiesHold(reg) ==
    \A cp \in reg.copies : reg.advice[cp[1] + 1] = regions[cp[2]].advice[cp[3] + 1]

RegionsNamed(name) == {r \in 1..Len(regions) : regions[r].name = name}

\* C4: the witness synthesize assigns for seeds (1, 3, 2) and length 14
\* satisfies every constraint: 11 add rows with out = lhs + rhs, 11 xor rows
\* with operands in [0,32) and (lhs, rhs, out) a row of the table, the gate and
\* the lookup on every row (an unassigned, all-zero row included), and every
\* copy constraint between equal cells.
C4_MainWitnessSatisfies ==
    (/\ pc = "complete" /\ args = MainArgs /\ ~shape_only
     /\ \A r \in 1..Len(regions) : Known(regions[r])) =>
        LET T == TableRows(xor_table)
        IN  /\ AddGate(0, 0, 0, 0) = 0
            /\ XorLookupInput(0, 0, 0, 0) \in T
            /\ Cardinality(RegionsNamed("add")) = 11
            /\ Cardinality(RegionsNamed("xor")) = 11
            /\ \A r \in 1..Len(regions) :
                  LET reg == regions[r]
                  IN  /\ GateHolds(reg)
                      /\ LookupHolds(reg, T)
                      /\ CopiesHold(reg)
                      /\ reg.name = "add" =>
                            /\ reg.s_add = 1
                            /\ Out(reg) = (Lhs(reg) + Rhs(reg)) % FieldOrder
                      /\ reg.name = "xor" =>
                            /\ reg.s_xor = 1
                            /\ Lhs(reg) \in 0..(TableRange - 1)
                            /\ Rhs(reg) \in 0..(TableRange - 1)
                            /\ <<Lhs(reg), Rhs(reg), Out(reg)>> \in T

\* synthesize has completed for main's circuit with every value assigned.
C4_Witness ==
    /\ pc = "complete" /\ args = MainArgs /\ ~shape_only
    /\ Len(regions) = 23
    /\ \A r \in 1..Len(regions) : Known(regions[r])

\* C5: on a row with the add selector enabled the gate holds iff
\* out = lhs + rhs in the field, so the value add() wrote is the only one that
\* satisfies it; on a row with the selector off the gate holds whatever the
\* cells hold.
C5_AddGateSound ==
    (Len(regions) > 0 /\ Known(LastRegion)) =>
        LET reg == LastRegion
        IN  IF reg.s_add = 1
            THEN /\ reg.name = "add"
                 /\ \A v \in Field :
                       (AddGate(1, Lhs(reg), Rhs(reg), v) = 0)
                           <=> (v = (Lhs(reg) + Rhs(reg)) % FieldOrder)
                 /\ GateHolds(reg)
                 /\ \A v \in Field \ {Out(reg)} :
                       AddGate(1, Lhs(reg), Rhs(reg), v) # 0
            ELSE \A v \in Field :
                    /\ AddGate(reg.s_add, v, Rhs(reg), Out(reg)) = 0
                    /\ AddGate(reg.s_add, Lhs(reg), v, Out(reg)) = 0
                    /\ AddGate(reg.s_add, Lhs(reg), Rhs(reg), v) = 0

\* add() has just written a row whose sum is not zero.
C5_Witness ==
    /\ pc = "loop" /\ Len(regions) > 0
    /\ LastRegion.name = "add" /\ Known(LastRegion)
    /\ Lhs(LastRegion) > 0 /\ Rhs(LastRegion) > 0

\* C6: on a row with the xor selector enabled, when both operands are in
\* [0,32) the lookup holds iff out = lhs XOR rhs; when an operand is outside
\* [0,32) the lookup holds for no value of out, although xor() returned Ok.
C6_XorLookupSound ==
    (pc = "xored" /\ Known(LastRegion)) =>
        LET reg == LastRegion
            T   == TableRows(xor_table)
        IN  /\ reg.name = "xor" /\ reg.s_xor = 1
            /\ err = NoError
            /\ IF Lhs(reg) < TableRange /\ Rhs(reg) < TableRange
               THEN \A v \in Field :
                       (XorLookupInput(1, Lhs(reg), Rhs(reg), v) \in T)
                           <=> (v = XorSpec(Lhs(reg), Rhs(reg)))
               ELSE \A v \in Field :
                       XorLookupInput(1, Lhs(reg), Rhs(reg), v) \notin T

\* xor() returned Ok on an operand outside [0,32) and assigned a value.
C6_Witness ==
    /\ pc = "xored" /\ Known(LastRegion) /\ err = NoError
    /\ Lhs(LastRegion) >= TableRange
    /\ Rhs(LastRegion) \in 1..(TableRange - 1)

\* ------------------------------------------------------------ sequencing
\* The operations of one run of synthesize for length n, in order.
ExpectedOps(n) ==
    [k \in 1..(2 + 2 * (n - 3)) |->
        IF k = 1 THEN "load_table"
        ELSE IF k = 2 THEN "load_private"
        ELSE IF k % 2 = 1 THEN "xor" ELSE "add"]

IsPrefix(s, t) == Len(s) <= Len(t) /\ \A k \in 1..Len(s) : s[k] = t[k]

\* C7: for length n >= 3 synthesize calls load_table once, then load_private
\* once, then n - 3 times xor directly followed by add, and nothing else; the
\* table is loaded before any region is assigned, and a run that completes
\* has performed exactly these operations.
C7_OperationOrder ==
    (pc \notin {"main", "panic"} /\ circuit.num >= 3) =>
        /\ IsPrefix(ops, ExpectedOps(circuit.num))
        /\ Len(regions) > 0 => Len(xor_table) > 0
        /\ pc = "complete" =>
              /\ Len(ops) = 2 + 2 * (circuit.num - 3)
              /\ \A k \in 1..Len(ops) : ops[k] = ExpectedOps(circuit.num)[k]
              /\ Cardinality(RegionsNamed("xor")) = circuit.num - 3
              /\ Cardinality(RegionsNamed("add")) = circuit.num - 3
              /\ err = NoError

\* A run of at least two iterations has completed.
C7_Witness ==
    /\ pc = "complete" /\ circuit.num >= 5
    /\ ops[Len(ops)] = "add"

\* One step of synthesize, as C8 describes it.
C8_Step ==
    /\ (/\ ops' = Append(ops, "xor") /\ requested'
         /\ (b.value = None \/ c.value = None)) =>
            (pc' = "error" /\ err' = "Synthesis" /\ regions' = regions)
    /\ (/\ ops' = Append(ops, "add") /\ requested'
         /\ (a.value = None \/ xor.value = None)) =>
            (pc' = "error" /\ err' = "Synthesis" /\ regions' = regions)
    /\ \A r \in 1..Len(regions') :
          (regions'[r].name \in {"add", "xor"} /\ regions'[r].advice[3] # None) =>
              (regions'[r].advice[1] # None /\ regions'[r].advice[2] # None)
    /\ (err' # NoError) => pc' = "error"
    /\ pc # "error"
    /\ pc' = "complete" => err' = NoError

\* C8: add and xor return Error::Synthesis when an input's value is unknown
\* and the output value is requested, and a known output is never assigned
\* from an unknown input; an error of any operation ends synthesize at once:
\* no step follows it and Complete is not reached.
C8_ErrorHandling == [][C8_Step]_vars

\* add was asked for the sum of an unknown value and returned the error.
C8_Witness ==
    /\ pc = "error" /\ err = "Synthesis" /\ requested
    /\ ops[Len(ops)] = "add"
    /\ xor.value = None

\* ------------------------------------------------------- rolling window
\* Term j of the oracle sequence, counted from 0 as in the source.
Seq0(j) == seq[j + 1]

\* No u64 sum overflowed up to term j (counted from 0).
NoOverflowUpTo(j) == \A k \in 4..(j + 1) : TrueSum(k) < U64Mod

\* The cell that holds term j: a seed in the first region, or the output of
\* the add region of iteration j - 3.
TermCell(j) == IF j < 3 THEN <<1, j>> ELSE <<3 + 2 * (j - 3), 2>>

\* The handle h refers to term j: it names that cell, carries the cell's
\* value, and the value, when known and not past an overflow, is the term.
RefersTo(h, j) ==
    /\ <<h.region, h.column>> = TermCell(j)
    /\ h.region \in 1..Len(regions)
    /\ h.value = regions[h.region].advice[h.column + 1]
    /\ (h.value # None /\ NoOverflowUpTo(j)) => Get(h.value) = Seq0(j)

\* C9: before iteration k the handles (a, b, c) refer to the cells of
\* seq[k], seq[k+1], seq[k+2]; the xor row copies its inputs from the cells of
\* b and c and outputs seq[k+1] XOR seq[k+2]; the add row copies its inputs
\* from the cell of a and from that xor output and outputs seq[k+3], which c
\* refers to afterwards.
C9_RollingWindow ==
    (~shape_only /\ pc \in {"loop", "xored"}) =>
        LET k == i - 3
        IN  /\ RefersTo(a, k) /\ RefersTo(b, k + 1) /\ RefersTo(c, k + 2)
            /\ pc = "xored" =>
                  LET reg == LastRegion
                  IN  /\ Len(regions) = 2 + 2 * k
                      /\ reg.name = "xor"
                      /\ reg.copies = {<<0, b.region, b.column>>,
                                       <<1, c.region, c.column>>}
                      /\ xor = Number(Len(regions), 2, reg.advice[3])
                      /\ (Known(reg) /\ NoOverflowUpTo(k + 2)) =>
                            /\ Lhs(reg) = Seq0(k + 1)
                            /\ Rhs(reg) = Seq0(k + 2)
                            /\ Out(reg) = XorSpec(Seq0(k + 1), Seq0(k + 2))
            /\ (pc = "loop" /\ k > 0) =>
                  LET reg  == LastRegion
                      xreg == regions[Len(regions) - 1]
                      was  == TermCell(k - 1)
                  IN  /\ Len(regions) = 1 + 2 * k
                      /\ reg.name = "add" /\ xreg.name = "xor"
                      /\ reg.copies = {<<0, was[1], was[2]>>,
                                       <<1, Len(regions) - 1, 2>>}
                      /\ (Known(reg) /\ NoOverflowUpTo(k + 2)) =>
                            /\ Lhs(reg) = Seq0(k - 1)
                            /\ Rhs(reg) = Out(xreg)
                            /\ Out(reg) = Seq0(k + 2)

\* The last iteration of a run of at least two has rolled the window, with
\* every value assigned and no overflow.
C9_Witness ==
    /\ ~shape_only /\ pc = "loop" /\ i = circuit.num /\ i >= 5
    /\ \A r \in 1..Len(regions) : Known(regions[r])
    /\ NoOverflowUpTo(i - 1)
    /\ Get(a.value) # Get(b.value) /\ Get(b.value) # Get(c.value)

\* ------------------------------------------------------ shape-only circuit
\* The regions of one run of synthesize for length n, in order.
ExpectedRegions(n) ==
    [k \in 1..(1 + 2 * (n - 3)) |->
        IF k = 1 THEN "private" ELSE IF k % 2 = 0 THEN "xor" ELSE "add"]

\* C10: the circuit without_witnesses() returns keeps the length of the
\* circuit it comes from, so its synthesis allocates the regions the
\* synthesis of that circuit allocates.
C10_ShapeKept ==
    (shape_only /\ pc = "complete") =>
        /\ circuit.num = args.num
        /\ Len(regions) = 1 + 2 * (args.num - 3)
        /\ \A r \in 1..Len(regions) : regions[r].name = ExpectedRegions(args.num)[r]

====
